---- MODULE Spec2Model ----
(***************************************************************************)
(* Departure-board engine of trains.py: Station.__init__ (station          *)
(* resolution), Train/Journey/Stop construction, and                       *)
(* Station.showDepartures with its ThreadPoolExecutor fan-out.             *)
(*                                                                         *)
(* Encoding of Python values:                                              *)
(*   None is <<>>, any other optional value v is <<v>>;                    *)
(*   texts that the code transforms (station names, train numbers,         *)
(*   categories) are sequences of one-character strings;                   *)
(*   opaque texts (station ids, platforms, destinations, times) are        *)
(*   strings, "" being Python's empty string.                              *)
(***************************************************************************)
EXTENDS Integers, Sequences, FiniteSets, TLC

VARIABLES
    pc,          \* position of the __main__ script / showDepartures
    station,     \* the Station built from args.departures: [name, id]
    ioLog,       \* calls to inquirer, API.cercaStazione, API.statistiche:
                 \* <<phase, op>>
    out,         \* the lines printed: [kind, name, rows]
    partenzeLog, \* station ids passed to API.partenze
    raw,         \* records returned by API.partenze not yet turned into Train
    departures,  \* the list of Train objects of showDepartures
    journeyLog,  \* per train: None, or <<[key, reply]>> of API.andamentoTreno,
                 \* reply being None until the call has returned
    futures,     \* per train: state and result of Journey.fromTrain
    table,       \* rows added to the PrettyTable
    overtaken,   \* history: some call returned while an earlier one was running
    probe        \* a single call of a constructor or of the loop body

vars == <<pc, station, ioLog, out, partenzeLog, raw, departures,
          journeyLog, futures, table, overtaken, probe>>

(* ----------------------------- bounds ---------------------------------- *)

MaxTrains == 2
MaxResults == 2

(* ------------------------- Python values ------------------------------- *)

None == <<>>
Some(v) == <<v>>
Val(x) == x[1]

TruthyStr(x) == x # None /\ Val(x) # ""
TruthyInt(x) == x # None /\ Val(x) # 0

\* a or b
OrStr(a, b) == IF TruthyStr(a) THEN a ELSE b
OrInt(a, b) == IF TruthyInt(a) THEN a ELSE b

SeqsUpTo(S, n) == UNION {[1..k -> S] : k \in 0..n}

\* str.upper() on the letters in use
UpperChar(c) ==
    CASE c = "a" -> "A"
      [] c = "b" -> "B"
      [] OTHER -> c
Upper(s) == [i \in DOMAIN s |-> UpperChar(s[i])]

\* str.strip()
IsSpace(c) == c = " "
RECURSIVE LStrip(_)
LStrip(s) == IF s # <<>> /\ IsSpace(Head(s)) THEN LStrip(Tail(s)) ELSE s
RECURSIVE RStrip(_)
RStrip(s) ==
    IF s # <<>> /\ IsSpace(s[Len(s)]) THEN RStrip(SubSeq(s, 1, Len(s) - 1)) ELSE s
Strip(s) == RStrip(LStrip(s))

\* format(n, '+'): sign, then the decimal digits
DigitChar(d) == CASE d = 0 -> "0" [] d = 1 -> "1" [] d = 2 -> "2" [] d = 3 -> "3"
                  [] d = 4 -> "4" [] d = 5 -> "5" [] d = 6 -> "6" [] d = 7 -> "7"
                  [] d = 8 -> "8" [] d = 9 -> "9"
RECURSIVE Digits(_)
Digits(n) == IF n < 10 THEN <<DigitChar(n)>> ELSE Digits(n \div 10) \o <<DigitChar(n % 10)>>
FormatPlus(n) == IF n < 0 THEN <<"-">> \o Digits(-n) ELSE <<"+">> \o Digits(n)

(* ------------------------------ Stop ----------------------------------- *)

Stop(data) ==
    [id |-> data.id,
     scheduled_departure_platform |-> data.binarioProgrammatoPartenzaDescrizione,
     actual_departure_platform |-> data.binarioEffettivoPartenzaDescrizione,
     delay |-> data.ritardo]

\* variant: any difference counts, an absent actual platform included
departurePlatformDiffers(self) ==
    self.actual_departure_platform # self.scheduled_departure_platform

departurePlatformHasChanged(self) ==
    /\ TruthyStr(self.actual_departure_platform)
    /\ self.actual_departure_platform # self.scheduled_departure_platform

getDeparturePlatform(self) ==
    IF departurePlatformHasChanged(self)
    THEN self.actual_departure_platform
    ELSE self.scheduled_departure_platform

(* ----------------------------- Station --------------------------------- *)

\* variant: the comparison without upper()
FirstExactAsTyped(r, name) ==
    LET hits == {i \in DOMAIN r : r[i].nomeLungo = name}
    IN IF hits = {} THEN 0 ELSE CHOOSE i \in hits : \A j \in hits : i <= j

\* first index of r whose canonical name is name.upper(), 0 if none
FirstExact(r, name) ==
    LET hits == {i \in DOMAIN r : r[i].nomeLungo = Upper(name)}
    IN IF hits = {} THEN 0 ELSE CHOOSE i \in hits : \A j \in hits : i <= j

\* next(s[0] for s in guesses if s[1] == choice)
NameOfChoice(r, choice) ==
    LET hits == {i \in DOMAIN r : r[i].id = choice}
    IN r[CHOOSE i \in hits : \A j \in hits : i <= j].nomeLungo

\* variant: an empty id counts as no id
IdTruthy(id) == TruthyStr(id)

\* not (id is None)
IdGiven(id) == id # None

\* Station(name, id), where typed is what inquirer.text would answer, r what
\* API.cercaStazione would answer and choice what inquirer.list_input would
\* answer.  io lists the collaborators called, printed what was printed.
StationInit(name, id, typed, r, choice) ==
    LET asked == name = None /\ ~IdGiven(id)
        query == IF asked THEN typed ELSE Val(name)
        pre == IF asked THEN <<"text">> ELSE <<>>
        hit == FirstExact(r, query)
    IN IF IdGiven(id)
       THEN [name |-> name, id |-> id, io |-> <<>>, searched |-> None,
             printed |-> <<>>]
       ELSE IF Len(r) = 0
       THEN [name |-> name, id |-> None, io |-> pre \o <<"search">>,
             searched |-> Some(query), printed |-> <<"Nessuna stazione trovata">>]
       ELSE IF Len(r) = 1
       THEN [name |-> Some(r[1].nomeLungo), id |-> Some(r[1].id),
             io |-> pre \o <<"search">>, searched |-> Some(query),
             printed |-> <<>>]
       ELSE IF hit # 0
       THEN [name |-> Some(r[hit].nomeLungo), id |-> Some(r[hit].id),
             io |-> pre \o <<"search">>, searched |-> Some(query),
             printed |-> <<>>]
       ELSE [name |-> Some(NameOfChoice(r, choice)), id |-> Some(choice),
             io |-> pre \o <<"search", "list">>, searched |-> Some(query),
             printed |-> <<>>]

(* ------------------------------ Train ---------------------------------- *)

\* Train(data); typed, r and choice are the collaborators' answers in case the
\* Station constructor asks for them.  numbers and departure_platform are the
\* attributes showDepartures adds later: None while unset.
Train(data, typed, r, choice) ==
    LET origin == StationInit(None, OrStr(data.codOrigine, data.idOrigine),
                              typed, r, choice)
    IN [train |-> [departed |-> data.inStazione,
                   departure_date |-> data.dataPartenzaTreno,
                   departure_time |-> data.compOrarioPartenza,
                   origin_station |-> [name |-> origin.name, id |-> origin.id],
                   destination |-> data.destinazione,
                   category |-> Strip(data.categoriaDescrizione),
                   number |-> data.numeroTreno,
                   numbers |-> None,
                   departure_platform |-> None],
        io |-> origin.io,
        printed |-> origin.printed]

(* ----------------------------- Journey --------------------------------- *)

\* the arguments of API.andamentoTreno
getJourneyInfoArgs(departure_station, train_number, departure_date) ==
    <<departure_station.id, train_number, departure_date>>

RECURSIVE AppendChanges(_, _)
AppendChanges(numbers, changes) ==
    IF changes = <<>> THEN numbers
    ELSE AppendChanges(numbers \o <<"/">> \o Head(changes).nuovoNumeroTreno,
                       Tail(changes))

\* data is what getJourneyInfo returned: None or <<record>>
JourneyRaises(data) == data = None

Journey(train_number, data) ==
    LET d == Val(data)
    IN [delay |-> d.ritardo,
        train_numbers |-> IF d.haCambiNumero
                          THEN AppendChanges(train_number, d.cambiNumero)
                          ELSE train_number,
        stops |-> [i \in DOMAIN d.fermate |-> Stop(d.fermate[i])]]

\* Journey.fromTrain run by a pool thread: the state of its future
fromTrain(train, data) ==
    IF JourneyRaises(data)
    THEN [state |-> "raised", result |-> None]
    ELSE [state |-> "done", result |-> Some(Journey(train.number, data))]

(* --------------------- showDepartures: one row ------------------------- *)

Style_RED == "<RED>"
Style_GREEN == "<GREEN>"
Style_RESET == "<RESET>"

\* variant: the journey's delay only when the stop has none
RowDelayUnlessNone(stop, journey) ==
    IF stop.delay # None THEN stop.delay ELSE journey.delay

\* stop.delay or journey.delay
RowDelay(stop, journey) == OrInt(stop.delay, journey.delay)

DelayText(delay) ==
    IF TruthyInt(delay)
    THEN <<IF Val(delay) > 0 THEN Style_RED ELSE Style_GREEN>>
         \o FormatPlus(Val(delay)) \o <<" min", Style_RESET>>
    ELSE <<>>

\* the number shown in the first column
RowNumber(train) == train.number

\* variant: pairing from the other end
PairIndexReversed(i, n) == n + 1 - i

\* the journey paired with the train at position i of n
PairIndex(i, n) == i

\* variant: every stop, whatever its station
StopsAny(journey, self_id) == journey.stops

\* journey.stops whose id is the station's
StopsOf(journey, self_id) == SelectSeq(journey.stops, LAMBDA s : s.id = self_id)

\* body of the for loop for one (train, journey) pair of the station self_id:
\* raised when next() finds no stop, else the row added to the table
LoopBody(train, journey, self_id) ==
    LET found == StopsOf(journey, self_id)
        t1 == [train EXCEPT !.numbers = Some(journey.train_numbers)]
    IN IF found = <<>>
       THEN [raised |-> TRUE, train |-> t1, row |-> None]
       ELSE LET stop == Head(found)
                t2 == [t1 EXCEPT !.departure_platform =
                                     Some(getDeparturePlatform(stop))]
                platform == Val(t2.departure_platform)
            IN [raised |-> FALSE,
                train |-> t2,
                row |-> Some([treno |-> train.category \o <<" ">> \o RowNumber(train),
                              destinazione |-> train.destination,
                              partenza |-> train.departure_time,
                              ritardo |-> DelayText(RowDelay(stop, journey)),
                              binario |-> IF TruthyStr(platform)
                                          THEN Val(platform) ELSE ""])]

\* variant: the check left out
BoardNeverEmpty(deps) == FALSE

\* len(departures) == 0
BoardIsEmpty(deps) == Len(deps) = 0

(* ------------------- answers of the collaborators ---------------------- *)

StationNames == {<<"a">>, <<"A">>, <<"A", "b">>}
StationIds == {"S1", "S2"}
Candidates == [nomeLungo : {<<"A">>, <<"a">>, <<"A", "B">>}, id : StationIds]

\* API.cercaStazione
SearchResults == SeqsUpTo(Candidates, MaxResults)

\* API.cercaStazione during the run  trains.py -d a
CandA1 == [nomeLungo |-> <<"A">>, id |-> "S1"]
CandAB1 == [nomeLungo |-> <<"A", "B">>, id |-> "S1"]
CandAB2 == [nomeLungo |-> <<"A", "B">>, id |-> "S2"]
CandB1 == [nomeLungo |-> <<"B">>, id |-> "S1"]
SearchAnswers == {<<>>, <<CandA1>>, <<CandAB2, CandA1>>, <<CandAB1, CandB1>>}
TypedNames == {<<"a">>}

\* inquirer.list_input answers the id of one of the choices offered
ChoicesOf(r) == IF r = <<>> THEN {"S1"} ELSE {r[i].id : i \in DOMAIN r}

Platforms == {None, Some(""), Some("1"), Some("2")}
Delays == {None, Some(0), Some(-3), Some(12)}

StopData(id, scheduled, actual, ritardo) ==
    [id |-> Some(id),
     binarioProgrammatoPartenzaDescrizione |-> scheduled,
     binarioEffettivoPartenzaDescrizione |-> actual,
     ritardo |-> ritardo]

Change(n) == [nuovoNumeroTreno |-> n]

\* API.andamentoTreno: empty, or a journey record
JourneyPayloads ==
    { None,
      Some([ritardo |-> Some(0), haCambiNumero |-> FALSE, cambiNumero |-> <<>>,
            fermate |-> <<StopData("S1", Some("1"), None, None)>>]),
      Some([ritardo |-> Some(4), haCambiNumero |-> TRUE,
            cambiNumero |-> <<Change(<<"9">>)>>,
            fermate |-> <<StopData("S2", Some("3"), None, Some(0)),
                          StopData("S1", Some("1"), Some("2"), Some(-3))>>]),
      Some([ritardo |-> Some(4), haCambiNumero |-> FALSE, cambiNumero |-> <<>>,
            fermate |-> <<StopData("S2", Some("3"), None, Some(0))>>]),
      Some([ritardo |-> None, haCambiNumero |-> TRUE,
            cambiNumero |-> <<Change(<<"8">>), Change(<<"9">>)>>,
            fermate |-> <<StopData("S1", None, None, Some(0))>>]) }

DepartureRecord(number, cod, idOrigine) ==
    [inStazione |-> FALSE,
     dataPartenzaTreno |-> "D",
     compOrarioPartenza |-> "10:00",
     codOrigine |-> cod,
     idOrigine |-> idOrigine,
     destinazione |-> "MILANO",
     categoriaDescrizione |-> <<"R", " ">>,
     numeroTreno |-> number]

\* API.partenze
DepartureRecords ==
    { DepartureRecord(<<"1">>, Some("S1"), None),
      DepartureRecord(<<"2">>, Some(""), Some("S2")),
      DepartureRecord(<<"2">>, None, None) }

Boards == SeqsUpTo(DepartureRecords, MaxTrains)

(* --------------------- the run  trains.py -d NAME ---------------------- *)

Tagged(phase, ops) == [i \in DOMAIN ops |-> <<phase, ops[i]>>]
Line(kind) == [kind |-> kind, name |-> None, rows |-> <<>>]
Lines(kinds) == [i \in DOMAIN kinds |-> Line(kinds[i])]
Header(name) == [kind |-> "Partenze da", name |-> name, rows |-> <<>>]
Rendered(rows) == [kind |-> "table", name |-> None, rows |-> rows]

\* API.statistiche
StatsAnswers == {[treniGiorno |-> 1, treniCircolanti |-> 2]}

\* a line ending with a value put into it
LineWith(kind, text) == [kind |-> kind, name |-> Some(text), rows |-> <<>>]

Pending == [state |-> "pending", result |-> None]
Running == [state |-> "running", result |-> None]
Cancelled == [state |-> "cancelled", result |-> None]

Init ==
    /\ pc = "start"
    /\ station = None
    /\ ioLog = <<>>
    /\ out = <<>>
    /\ partenzeLog = <<>>
    /\ raw = <<>>
    /\ departures = <<>>
    /\ journeyLog = <<>>
    /\ futures = <<>>
    /\ table = <<>>
    /\ overtaken = FALSE
    /\ probe = None

\* args.stats holds (the default): showStats()
ShowStats ==
    /\ pc = "start"
    /\ ioLog' = Append(ioLog, <<"stats", "statistiche">>)
    /\ \E r \in StatsAnswers :
         out' = out \o
            <<LineWith("Numero treni in circolazione da mezzanotte",
                       Digits(r.treniGiorno)),
              LineWith("Numero treni in circolazione ora", Digits(r.treniCircolanti)),
              Line("Ultimo aggiornamento"),
              Line(Style_RESET)>>
    /\ pc' = "main"
    /\ UNCHANGED <<station, partenzeLog, raw, departures, journeyLog, futures,
                   table, overtaken, probe>>

\* --no-stats: showStats() is not called
NoStats ==
    /\ pc = "start"
    /\ pc' = "main"
    /\ UNCHANGED <<station, ioLog, out, partenzeLog, raw, departures, journeyLog,
                   futures, table, overtaken, probe>>

\* station = Station(args.departures)
MainStation ==
    /\ pc = "main"
    /\ \E name \in TypedNames, r \in SearchAnswers :
         \E choice \in ChoicesOf(r) :
            LET s == StationInit(Some(name), None, name, r, choice)
            IN /\ station' = Some([name |-> s.name, id |-> s.id])
               /\ ioLog' = ioLog \o Tagged("main", s.io)
               /\ out' = out \o Lines(s.printed)
    /\ pc' = "show"
    /\ UNCHANGED <<partenzeLog, raw, departures, journeyLog, futures, table, overtaken, probe>>

\* station.showDepartures(): self.getDepartures(date)
GetDepartures ==
    /\ pc = "show"
    /\ partenzeLog' = Append(partenzeLog, Val(station).id)
    /\ \E board \in Boards : raw' = board
    /\ pc' = "build"
    /\ UNCHANGED <<station, ioLog, out, departures, journeyLog, futures, table, overtaken, probe>>

\* [Train(d) for d in ...]: one element
BuildTrain ==
    /\ pc = "build"
    /\ raw # <<>>
    /\ \E typed \in TypedNames, r \in SearchAnswers :
         \E choice \in ChoicesOf(r) :
            LET t == Train(Head(raw), typed, r, choice)
            IN /\ departures' = Append(departures, t.train)
               /\ ioLog' = ioLog \o Tagged("build", t.io)
               /\ out' = out \o Lines(t.printed)
    /\ raw' = Tail(raw)
    /\ UNCHANGED <<pc, station, partenzeLog, journeyLog, futures, table, overtaken, probe>>

\* the header, then the board without trains
EmptyBoard ==
    /\ pc = "build"
    /\ raw = <<>>
    /\ BoardIsEmpty(departures)
    /\ out' = out \o <<Header(Val(station).name), Line("Nessun treno in partenza")>>
    /\ pc' = "done"
    /\ UNCHANGED <<station, ioLog, partenzeLog, raw, departures, journeyLog,
                   futures, table, overtaken, probe>>

\* the header, then pool.map submits one Journey.fromTrain per train
Submit ==
    /\ pc = "build"
    /\ raw = <<>>
    /\ ~BoardIsEmpty(departures)
    /\ out' = Append(out, Header(Val(station).name))
    /\ futures' = [i \in DOMAIN departures |-> Pending]
    /\ journeyLog' = [i \in DOMAIN departures |-> None]
    /\ pc' = "pool"
    /\ UNCHANGED <<station, ioLog, partenzeLog, raw, departures, table, overtaken, probe>>

Unwinding == pc \in {"raise_NoLiveData", "raise_StopIteration"}

\* a pool thread starts Journey.fromTrain(departures[i]) and sends the
\* request of getJourneyInfo
WorkerCall(i) ==
    /\ pc = "pool" \/ Unwinding
    /\ futures[i] = Pending
    /\ LET t == departures[i]
       IN journeyLog' = [journeyLog EXCEPT ![i] =
              Some([key |-> getJourneyInfoArgs(t.origin_station, t.number,
                                               t.departure_date),
                    reply |-> None])]
    /\ futures' = [futures EXCEPT ![i] = Running]
    /\ UNCHANGED <<pc, station, ioLog, out, partenzeLog, raw, departures, table,
                   overtaken, probe>>

\* the request returns and Journey.__init__ goes on to its end
WorkerReturn(i) ==
    /\ pc = "pool" \/ Unwinding
    /\ futures[i] = Running
    /\ \E data \in JourneyPayloads :
         /\ journeyLog' = [journeyLog EXCEPT ![i] =
                Some([Val(journeyLog[i]) EXCEPT !.reply = Some(data)])]
         /\ futures' = [futures EXCEPT ![i] = fromTrain(departures[i], data)]
    /\ overtaken' = (overtaken \/ \E j \in 1..(i - 1) :
                                     futures[j] \in {Pending, Running})
    /\ UNCHANGED <<pc, station, ioLog, out, partenzeLog, raw, departures, table, probe>>

\* position of the for loop, and the future zip pairs with it
LoopAt == Len(table) + 1
Paired == futures[PairIndex(LoopAt, Len(departures))]

\* one iteration of the for loop that adds a row
ConsumeRow ==
    /\ pc = "pool"
    /\ LoopAt <= Len(departures)
    /\ Paired.state = "done"
    /\ LET body == LoopBody(departures[LoopAt], Val(Paired.result), Val(station).id)
       IN /\ ~body.raised
          /\ departures' = [departures EXCEPT ![LoopAt] = body.train]
          /\ table' = Append(table, Val(body.row))
    /\ UNCHANGED <<pc, station, ioLog, out, partenzeLog, raw, journeyLog, futures, overtaken, probe>>

\* one iteration of the for loop in which next() raises StopIteration
ConsumeMissingStop ==
    /\ pc = "pool"
    /\ LoopAt <= Len(departures)
    /\ Paired.state = "done"
    /\ LET body == LoopBody(departures[LoopAt], Val(Paired.result), Val(station).id)
       IN /\ body.raised
          /\ departures' = [departures EXCEPT ![LoopAt] = body.train]
    /\ pc' = "raise_StopIteration"
    /\ UNCHANGED <<station, ioLog, out, partenzeLog, raw, journeyLog, futures, table, overtaken, probe>>

\* the result iterator re-raises the exception of Journey.__init__
ConsumeNoLiveData ==
    /\ pc = "pool"
    /\ LoopAt <= Len(departures)
    /\ Paired.state = "raised"
    /\ pc' = "raise_NoLiveData"
    /\ UNCHANGED <<station, ioLog, out, partenzeLog, raw, departures, journeyLog,
                   futures, table, overtaken, probe>>

\* the result iterator, closing, cancels a future no thread has started
Cancel(i) ==
    /\ pc = "raise_NoLiveData"
    /\ futures[i] = Pending
    /\ futures' = [futures EXCEPT ![i] = Cancelled]
    /\ UNCHANGED <<pc, station, ioLog, out, partenzeLog, raw, departures,
                   journeyLog, table, overtaken, probe>>

\* the with block has joined the threads: the exception leaves the script
Fail ==
    /\ Unwinding
    /\ \A i \in DOMAIN futures : futures[i] \notin {Pending, Running}
    /\ out' = Append(out, Line(IF pc = "raise_NoLiveData"
                               THEN "Exception: Trenitalia non sta fornendo aggiornamenti"
                               ELSE "StopIteration"))
    /\ pc' = "failed"
    /\ UNCHANGED <<station, ioLog, partenzeLog, raw, departures, journeyLog,
                   futures, table, overtaken, probe>>

\* print(table)
Render ==
    /\ pc = "pool"
    /\ LoopAt > Len(departures)
    /\ out' = Append(out, Rendered(table))
    /\ pc' = "done"
    /\ UNCHANGED <<station, ioLog, partenzeLog, raw, departures, journeyLog,
                   futures, table, overtaken, probe>>

Next ==
    \/ ShowStats
    \/ NoStats
    \/ MainStation
    \/ GetDepartures
    \/ BuildTrain
    \/ EmptyBoard
    \/ Submit
    \/ \E i \in DOMAIN futures : WorkerCall(i)
    \/ \E i \in DOMAIN futures : WorkerReturn(i)
    \/ ConsumeRow
    \/ ConsumeMissingStop
    \/ ConsumeNoLiveData
    \/ \E i \in DOMAIN futures : Cancel(i)
    \/ Fail
    \/ Render

Spec == Init /\ [][Next]_vars

(* ------------------ single calls of the constructors ------------------- *)

\* no script is running
Idle ==
    /\ pc = "probe"
    /\ station = None
    /\ ioLog = <<>>
    /\ out = <<>>
    /\ partenzeLog = <<>>
    /\ raw = <<>>
    /\ departures = <<>>
    /\ journeyLog = <<>>
    /\ futures = <<>>
    /\ table = <<>>
    /\ overtaken = FALSE

scriptVars == <<pc, station, ioLog, out, partenzeLog, raw, departures,
                journeyLog, futures, table, overtaken>>

OptNames == {None} \cup {Some(n) : n \in StationNames}
OptIds == {None, Some("")} \cup {Some(i) : i \in StationIds}

\* the arguments of a call Station(name, id)
InitResolve ==
    /\ Idle
    /\ \E name \in OptNames, id \in OptIds :
         probe = [name |-> name, id |-> id, first |-> None, again |-> None]

\* Station(name, id): the answers the collaborators would give, and the object
Construct ==
    /\ pc = "probe"
    /\ probe.first = None
    /\ \E typed \in (IF probe.name = None THEN StationNames ELSE {Val(probe.name)}),
          r \in SearchResults :
         \E choice \in ChoicesOf(r) :
            probe' = [probe EXCEPT !.first =
                Some([typed |-> typed, r |-> r, choice |-> choice,
                      result |-> StationInit(probe.name, probe.id, typed, r, choice)])]
    /\ UNCHANGED scriptVars

\* the same call once more, the collaborators answering anything
ConstructAgain ==
    /\ pc = "probe"
    /\ probe.first # None
    /\ probe.again = None
    /\ \E typed \in (IF probe.name = None THEN StationNames ELSE {Val(probe.name)}),
          r \in SearchResults :
         \E choice \in ChoicesOf(r) :
            probe' = [probe EXCEPT !.again =
                Some(StationInit(probe.name, probe.id, typed, r, choice))]
    /\ UNCHANGED scriptVars

NextResolve == Construct \/ ConstructAgain

SpecResolve == InitResolve /\ [][NextResolve]_vars

(* ------------------ single runs of the loop body ----------------------- *)

ProbeTrain == Train(DepartureRecord(<<"1">>, Some("S1"), None), <<"a">>, <<>>, "S1").train

\* a journey whose second stop is the station S1, with the probed values
ProbePayload(p) ==
    Some([ritardo |-> p.journey_delay, haCambiNumero |-> FALSE, cambiNumero |-> <<>>,
          fermate |-> <<StopData("S2", Some("9"), Some("8"), Some(7)),
                        StopData("S1", p.scheduled, p.actual, p.stop_delay)>>])

InitRow ==
    /\ Idle
    /\ \E scheduled \in Platforms, actual \in Platforms,
          stop_delay \in Delays, journey_delay \in Delays :
         probe = [scheduled |-> scheduled, actual |-> actual,
                  stop_delay |-> stop_delay, journey_delay |-> journey_delay,
                  row |-> None]

\* the loop body of showDepartures of station S1 on the probed journey
AddRow ==
    /\ pc = "probe"
    /\ probe.row = None
    /\ LET body == LoopBody(ProbeTrain, Journey(ProbeTrain.number, ProbePayload(probe)),
                            Some("S1"))
       IN /\ ~body.raised
          /\ probe' = [probe EXCEPT !.row = body.row]
    /\ UNCHANGED scriptVars

NextRow == AddRow

SpecRow == InitRow /\ [][NextRow]_vars

(* ------------------------------ claims --------------------------------- *)

TableRendered == \E i \in DOMAIN out : out[i].kind = "table"
\* the call for train k has returned
Answered(k) == journeyLog[k] # None /\ Val(journeyLog[k]).reply # None
Payload(k) == Val(Val(journeyLog[k]).reply)

\* the journey query for train k came back empty
NoLiveData(k) == Answered(k) /\ Payload(k) = None

\* the journey fetched for train k has no stop of the station
MissingStop(k) ==
    /\ Answered(k)
    /\ Payload(k) # None
    /\ \A i \in DOMAIN Val(Payload(k)).fermate :
          Val(Payload(k)).fermate[i].id # Val(station).id

\* C1: the row at index k is built from the train at index k and from the
\* journey fetched by the call issued for that train, whatever the order in
\* which the concurrent calls return; rows are in departure-board order.
C1_FanOutCorrespondence ==
    \A k \in DOMAIN table :
       /\ Answered(k)
       /\ Val(journeyLog[k]).key =
             <<departures[k].origin_station.id, departures[k].number,
               departures[k].departure_date>>
       /\ Payload(k) # None
       /\ LET body == LoopBody(departures[k],
                               Journey(departures[k].number, Payload(k)),
                               Val(station).id)
          IN /\ ~body.raised
             /\ table[k] = Val(body.row)
             /\ departures[k].numbers = Some(Journey(departures[k].number,
                                                     Payload(k)).train_numbers)

\* a board of two trains rendered although the second call returned first,
\* the two journeys being different
C1_Witness ==
    /\ pc = "done"
    /\ TableRendered
    /\ Len(table) = 2
    /\ overtaken
    /\ Payload(1) # Payload(2)

\* C2: if the journey query of some train returned empty, or the journey of
\* some train has no stop of the station, no table is rendered and the run
\* does not end normally; a table is rendered only when every train has a
\* journey with a stop of the station and a row; a failed run ends with the
\* error and without a table.
C2_AllOrNothing ==
    /\ (\E k \in DOMAIN journeyLog : NoLiveData(k) \/ MissingStop(k))
          => (~TableRendered /\ pc # "done")
    /\ TableRendered =>
          /\ Len(table) = Len(departures)
          /\ out[Len(out)].rows = table
          /\ \A k \in DOMAIN departures :
                Answered(k) /\ ~NoLiveData(k) /\ ~MissingStop(k)
    /\ pc = "failed" =>
          /\ ~TableRendered
          /\ out[Len(out)].kind \in
                {"Exception: Trenitalia non sta fornendo aggiornamenti", "StopIteration"}

\* the run failed on the second train after a row was added for the first
C2_Witness ==
    /\ pc = "failed"
    /\ Len(table) = 1
    /\ Len(departures) = 2
    /\ NoLiveData(2) \/ MissingStop(2)
    /\ ~TableRendered

\* C3 (as claimed): the number shown in the row of a train whose journey
\* records number changes is the queried number followed by every new number,
\* joined with "/".
C3_RowShowsAllNumbers ==
    \A k \in DOMAIN table :
       (/\ Answered(k)
        /\ Payload(k) # None
        /\ Val(Payload(k)).haCambiNumero
        /\ Val(Payload(k)).cambiNumero # <<>>)
       => table[k].treno =
             departures[k].category \o <<" ">>
                \o AppendChanges(departures[k].number, Val(Payload(k)).cambiNumero)

\* the station search of the script found nothing
NotFound ==
    /\ station # None
    /\ Val(station).id = None

\* C5 (as claimed): when the search finds no station this is reported, the
\* script does not fail, and neither a departures query nor a journey query
\* is issued.
C5_NotFoundSkipsBoard ==
    NotFound =>
       /\ \E i \in DOMAIN out : out[i].kind = "Nessuna stazione trovata"
       /\ pc # "failed"
       /\ partenzeLog = <<>>
       /\ \A k \in DOMAIN journeyLog : journeyLog[k] = None

\* C6: when the departures query returns no train, showDepartures prints
\* "no trains" and returns, with no pool, no journey query and no table.
C6_EmptyBoard ==
    (partenzeLog # <<>> /\ pc # "build" /\ departures = <<>>) =>
       /\ pc = "done"
       /\ futures = <<>>
       /\ journeyLog = <<>>
       /\ ~TableRendered
       /\ out[Len(out)] = Line("Nessun treno in partenza")

\* a resolved station whose board came back empty
C6_Witness ==
    /\ pc = "done"
    /\ ~NotFound
    /\ partenzeLog # <<>>
    /\ departures = <<>>
    /\ out[Len(out)] = Line("Nessun treno in partenza")

\* C10 (as claimed): building the Train list calls neither the prompt nor the
\* station search, and every origin station has an id and no name.
C10_BuildAsksNobody ==
    /\ \A i \in DOMAIN ioLog : ioLog[i][1] # "build"
    /\ \A k \in DOMAIN departures : departures[k].origin_station.name = None

(* claims on Station(name, id) *)

Call == Val(probe.first)
Pair(s) == <<s.name, s.id>>

\* the name searched for in the first call
Query == IF probe.name = None THEN Call.typed ELSE Val(probe.name)

\* the candidates of the first call whose name is the uppercased query
Exact == {i \in DOMAIN Call.r : Call.r[i].nomeLungo = Upper(Query)}

Ambiguous == probe.first # None /\ probe.id = None /\ Len(Call.r) >= 2

\* C8: with several candidates, the first candidate whose canonical name is
\* the uppercased name is accepted without a selection prompt; with no such
\* candidate the selection prompt is called exactly once and the station gets
\* the chosen id and the name of the candidate carrying it.
C8_Ambiguity ==
    Ambiguous =>
       IF Exact # {}
       THEN LET i == CHOOSE i \in Exact : \A j \in Exact : i <= j
            IN /\ Pair(Call.result) = <<Some(Call.r[i].nomeLungo), Some(Call.r[i].id)>>
               /\ \A e \in DOMAIN Call.result.io : Call.result.io[e] # "list"
       ELSE /\ Cardinality({e \in DOMAIN Call.result.io : Call.result.io[e] = "list"}) = 1
            /\ Call.result.id = Some(Call.choice)
            /\ \E i \in DOMAIN Call.r :
                  /\ Call.r[i].id = Call.choice
                  /\ Call.result.name = Some(Call.r[i].nomeLungo)
                  /\ \A j \in 1..(i - 1) : Call.r[j].id # Call.choice

\* a lower-case name whose only exact candidate is the second one
C8_Witness ==
    /\ Ambiguous
    /\ Query = <<"a">>
    /\ Exact = {2}
    /\ Call.result.id = Some(Call.r[2].id)
    /\ Call.r[1].id # Call.r[2].id

\* C9: a Station built with an id calls neither the search nor a prompt and
\* holds the name and the id passed in; built again it holds the same pair.
C9_ByIdIdempotent ==
    (probe.first # None /\ probe.id # None) =>
       /\ Call.result.io = <<>>
       /\ Call.result.searched = None
       /\ Call.result.printed = <<>>
       /\ Pair(Call.result) = <<probe.name, probe.id>>
       /\ probe.again # None => Pair(Val(probe.again)) = Pair(Call.result)

\* an id without a name, built twice, the search having candidates to offer
C9_Witness ==
    /\ probe.id # None
    /\ probe.name = None
    /\ probe.first # None
    /\ Len(Call.r) = 2
    /\ probe.again # None
    /\ Val(probe.again).id = probe.id

(* claims on the row *)

Row == Val(probe.row)
Cell(p) == IF p = None THEN "" ELSE Val(p)

\* C4 (as claimed): the row's platform is the actual one whenever it differs
\* from the scheduled one, else the scheduled one.
C4_PlatformAsClaimed ==
    probe.row # None =>
       Row.binario = Cell(IF probe.actual # probe.scheduled
                          THEN probe.actual ELSE probe.scheduled)

\* C4 (amended): the row's platform is the actual one when that is present,
\* not empty and different from the scheduled one; otherwise the scheduled
\* one, an absent scheduled platform giving an empty cell.
C4_PlatformPolicy ==
    probe.row # None =>
       Row.binario = Cell(IF /\ probe.actual # None
                             /\ probe.actual # Some("")
                             /\ probe.actual # probe.scheduled
                          THEN probe.actual ELSE probe.scheduled)

\* an absent actual platform beside a scheduled one: the scheduled one is shown
C4_Witness ==
    /\ probe.row # None
    /\ probe.actual = None
    /\ probe.scheduled = Some("1")
    /\ Row.binario = "1"

DigitValue(c) == CASE c = "0" -> 0 [] c = "1" -> 1 [] c = "2" -> 2 [] c = "3" -> 3
                   [] c = "4" -> 4 [] c = "5" -> 5 [] c = "6" -> 6 [] c = "7" -> 7
                   [] c = "8" -> 8 [] c = "9" -> 9
RECURSIVE ParseDigits(_)
ParseDigits(s) ==
    IF s = <<>> THEN 0
    ELSE 10 * ParseDigits(SubSeq(s, 1, Len(s) - 1)) + DigitValue(s[Len(s)])

\* the integer a badge <<colour, sign, digits..., " min", reset>> shows
BadgeValue(b) ==
    LET digits == SubSeq(b, 3, Len(b) - 2)
    IN IF b[2] = "-" THEN 0 - ParseDigits(digits) ELSE ParseDigits(digits)

\* C7: the delay shown is the stop's delay when present and not zero, else
\* the journey's; a zero or absent delay gives no badge; any other delay gives
\* a badge showing that value with its sign.
C7_DelayPolicy ==
    probe.row # None =>
       LET shown == IF probe.stop_delay # None /\ probe.stop_delay # Some(0)
                    THEN probe.stop_delay ELSE probe.journey_delay
           badge == Row.ritardo
       IN IF shown = None \/ shown = Some(0)
          THEN badge = <<>>
          ELSE /\ Len(badge) >= 5
               /\ badge[2] = (IF Val(shown) > 0 THEN "+" ELSE "-")
               /\ badge[Len(badge) - 1] = " min"
               /\ BadgeValue(badge) = Val(shown)

\* a stop delay of zero beside a negative journey delay: the badge shows it
C7_Witness ==
    /\ probe.row # None
    /\ probe.stop_delay = Some(0)
    /\ probe.journey_delay = Some(-3)
    /\ Row.ritardo = <<Style_GREEN, "-", "3", " min", Style_RESET>>

====
